---- MODULE Spec2Model ----
(***************************************************************************)
(* Model of nba_scoring/shot_maps/robust_fetch_all.py: the season Fetcher  *)
(* get_all_shots_season and the multi-season driver get_all_seasons, with  *)
(* the disk (final and progress CSV files), the statistics service and the *)
(* process being killed and started again; and of draw_shot_chart.py: the  *)
(* court and the shot scatter drawn on a matplotlib Axes.                  *)
(*                                                                         *)
(* A DataFrame is the sequence of its rows (its RangeIndex is the position *)
(* in the sequence, which is what ignore_index=True / index=False keep).   *)
(* A row is <<team, k>>: the k-th row the service returned for the team.   *)
(* A Python string is the sequence of its characters.                      *)
(***************************************************************************)
EXTENDS Integers, Sequences, FiniteSets, TLC

VARIABLES
    start_year, end_year, save_every,   \* arguments of get_all_seasons
    dpc,                                \* position in get_all_seasons
    year, results,                      \* locals of get_all_seasons
    fpc,                                \* position in get_all_shots_season
    season, i, all_shots, failed_teams, \* locals of get_all_shots_season
    ret, exc,                           \* value returned / exception raised by the Fetcher
    files,                              \* the working directory: file name -> rows
    files0, events, resp, snaps, calls, \* history of the current call / run
    ax, chart_df, rcParams, drawn       \* the Axes, the df drawn on it, mpl.rcParams, calls made

vars == <<start_year, end_year, save_every, dpc, year, results, fpc,
          season, i, all_shots, failed_teams, ret, exc, files,
          files0, events, resp, snaps, calls, ax, chart_df, rcParams, drawn>>

\* the state of the renderer, which the Fetcher and the driver never touch
chart == <<ax, chart_df, rcParams, drawn>>

(* ------------------------------ bounds -------------------------------- *)

NumTeams == 3
MaxSaveEvery == 2

\* the <<start_year, end_year>> arguments tried for one process started again and
\* again (the last one is an empty range), and for a single run over several seasons
YearRanges == {<<1999, 1999>>, <<2005, 2005>>, <<2025, 2025>>, <<2025, 2024>>}
LongRanges == {<<1998, 1999>>, <<2099, 2099>>}

(* ------------------------------ strings ------------------------------- *)

Digit(d) == <<"0", "1", "2", "3", "4", "5", "6", "7", "8", "9">>[d + 1]

RECURSIVE StrNat(_)
StrNat(n) == IF n < 10 THEN <<Digit(n)>> ELSE Append(StrNat(n \div 10), Digit(n % 10))

\* str(n) of a Python int
Str(n) == IF n < 0 THEN <<"-">> \o StrNat(-n) ELSE StrNat(n)

Zeros(k) == [j \in 1..k |-> "0"]

\* str.zfill(width): zeros go after a leading sign; a string already wide enough is kept
Zfill(s, width) ==
    IF Len(s) >= width THEN s
    ELSE IF Len(s) > 0 /\ s[1] \in {"+", "-"}
         THEN <<s[1]>> \o Zeros(width - Len(s)) \o Tail(s)
         ELSE Zeros(width - Len(s)) \o s

\* f"{year}-{str(year-2000+1).zfill(2)}"
SeasonStr(y) == Str(y) \o <<"-">> \o Zfill(Str(y - 2000 + 1), 2)

\* f'nba_shots_{season}_all.csv'
OutputFile(s) == <<"nba_shots_", s, "_all.csv">>

\* f'nba_shots_{season}_progress.csv'
ProgressFile(s) == <<"nba_shots_", s, "_progress.csv">>

(* ----------------------------- data frames ---------------------------- *)

\* the first table of a shot-chart response with n rows for team t
Frame(t, n) == [k \in 1..n |-> <<t, k>>]

\* the row counts the service answers with for team t: no shots, or the team's 1 or 2 shots
RowCounts(t) == {0, 1 + (t % 2)}

RECURSIVE ConcatNewestFirst(_)
\* a bug: the frames are put together last one first
ConcatNewestFirst(frames) ==
    IF frames = <<>> THEN <<>> ELSE ConcatNewestFirst(Tail(frames)) \o frames[1]

RECURSIVE Concat(_)
\* pd.concat(frames, ignore_index=True)
Concat(frames) ==
    IF frames = <<>> THEN <<>> ELSE frames[1] \o Concat(Tail(frames))

Prefixes(rows) == {SubSeq(rows, 1, n) : n \in 0..Len(rows)}

(* -------------------------------- disk -------------------------------- *)

\* os.path.exists
Exists(f) == f \in DOMAIN files

\* DataFrame.to_csv(f, index=False) that succeeds: the whole file is replaced
ToCsv(f, rows) == [x \in DOMAIN files \cup {f} |-> IF x = f THEN rows ELSE files[x]]

\* os.remove
Remove(f) == [x \in DOMAIN files \ {f} |-> files[x]]

\* what a to_csv that raises can leave: nothing touched (open failed), or the
\* file truncated and written up to some row
FailedToCsv(f, rows) == {files} \cup {ToCsv(f, p) : p \in Prefixes(rows) \ {rows}}

\* what a shot-chart request came to: a frame, or an exception
Returned(df) == [ok |-> TRUE, df |-> df]
Raised == [ok |-> FALSE, df |-> <<>>]

(* -------------------------------- Init -------------------------------- *)

Start(ranges, intervals) ==
    /\ \E r \in ranges : start_year = r[1] /\ end_year = r[2]
    /\ save_every \in intervals
    /\ dpc = "idle"
    /\ year = start_year
    /\ results = <<>>
    /\ fpc = "none"
    /\ season = <<>>
    /\ i = 0
    /\ all_shots = <<>>
    /\ failed_teams = <<>>
    /\ ret = <<>>
    /\ exc = ""
    /\ files0 = <<>>
    /\ events = <<>>
    /\ resp = <<>>
    /\ snaps = <<>>
    /\ calls = <<>>

\* a new Axes: no artist, the default view and ticks
BlankAxes ==
    [lines |-> <<>>, artists |-> <<>>, collections |-> <<>>,
     xlim |-> <<0, 1>>, ylim |-> <<0, 1>>, xticks |-> <<0, 1>>, yticks |-> <<0, 1>>]

\* matplotlib's defaults of the three rcParams the module sets (axes.linewidth in tenths)
DefaultRc == [family |-> "sans-serif", size |-> 10, linewidth |-> 8]

\* nothing is drawn by the fetching script
NoChart == ax = BlankAxes /\ chart_df = <<>> /\ rcParams = DefaultRc /\ drawn = {}

\* a process over one season (or none), first started on an empty directory
Init == Start(YearRanges, 0..MaxSaveEvery) /\ files = <<>> /\ NoChart

\* a process over several seasons, with no checkpoint interval or the longest one, in a
\* directory that is empty or where an earlier process completed the last season of
\* the range
LongInit ==
    /\ Start(LongRanges, {0, MaxSaveEvery})
    /\ files \in {<<>>, OutputFile(SeasonStr(end_year)) :> Frame(1, 1)}
    /\ NoChart

(* ----------------------- get_all_shots_season ------------------------- *)

params == <<start_year, end_year, save_every>>
driver == <<dpc, year, results, calls>>

\* teams.get_teams(): the static team list, in its own order
all_teams == [t \in 1..NumTeams |-> t]

\* a bug: the file looked for is not the one that is written
AlreadyCompleteWrongName(s) == Exists(<<"nba_shots_", s, ".csv">>)

\* lines 22-23: os.path.exists(output_file)
AlreadyComplete(s) == Exists(OutputFile(s))

\* a bug: the snapshot is written whether or not there is anything to write
SaveDueEvenIfEmpty(k, shots) == k % save_every = 0

\* line 62: i % save_every == 0 and all_shots (save_every # 0)
SaveDue(k, shots) == k % save_every = 0 /\ shots # <<>>

\* lines 23-25: the file is there and pd.read_csv returns its rows
SkipExisting ==
    /\ fpc = "enter"
    /\ AlreadyComplete(season)
    /\ ret' = files[OutputFile(season)]
    /\ fpc' = "ret"
    /\ UNCHANGED <<chart, params, driver, season, i, all_shots, failed_teams, exc, files,
                   files0, events, resp, snaps>>

\* line 25: pd.read_csv raises; nothing catches it in the Fetcher
SkipExistingFails ==
    /\ fpc = "enter"
    /\ AlreadyComplete(season)
    /\ exc' = "read_csv"
    /\ fpc' = "raised"
    /\ UNCHANGED <<chart, params, driver, season, i, all_shots, failed_teams, ret, files,
                   files0, events, resp, snaps>>

\* lines 28-39: the team list is fetched and the loop starts
GetTeams ==
    /\ fpc = "enter"
    /\ ~AlreadyComplete(season)
    /\ events' = Append(events, <<"teams", 0>>)
    /\ all_shots' = <<>>
    /\ failed_teams' = <<>>
    /\ i' = 1
    /\ fpc' = IF Len(all_teams) >= 1 THEN "request" ELSE "combine"
    /\ UNCHANGED <<chart, params, driver, season, ret, exc, files, files0, resp, snaps>>

\* line 28: teams.get_teams() raises
GetTeamsFails ==
    /\ fpc = "enter"
    /\ ~AlreadyComplete(season)
    /\ events' = Append(events, <<"teams", 0>>)
    /\ exc' = "get_teams"
    /\ fpc' = "raised"
    /\ UNCHANGED <<chart, params, driver, season, i, all_shots, failed_teams, ret, files,
                   files0, resp, snaps>>

\* lines 45-59: the request for team i returns a frame of n rows (n = 0: "No shots")
RequestReturns ==
    /\ fpc = "request"
    /\ \E n \in RowCounts(all_teams[i]) :
        LET df == Frame(all_teams[i], n) IN
        /\ events' = Append(events, <<"req", all_teams[i]>>)
        /\ resp' = Append(resp, Returned(df))
        /\ all_shots' = IF Len(df) > 0 THEN Append(all_shots, df) ELSE all_shots
    /\ fpc' = "save"
    /\ UNCHANGED <<chart, params, driver, season, i, failed_teams, ret, exc, files, files0, snaps>>

\* a bug: no handler around the request, the exception leaves the Fetcher
RequestRaisesUncaught ==
    /\ fpc = "request"
    /\ events' = Append(events, <<"req", all_teams[i]>>)
    /\ resp' = Append(resp, Raised)
    /\ exc' = "api"
    /\ fpc' = "raised"
    /\ UNCHANGED <<chart, params, driver, season, i, all_shots, failed_teams, ret, files, files0, snaps>>

\* lines 45-53 raise, lines 70-72: the team is recorded as failed
RequestRaises ==
    /\ fpc = "request"
    /\ events' = Append(events, <<"req", all_teams[i]>>)
    /\ resp' = Append(resp, Raised)
    /\ failed_teams' = Append(failed_teams, <<all_teams[i], "api">>)
    /\ fpc' = "sleep"
    /\ UNCHANGED <<chart, params, driver, season, i, all_shots, ret, exc, files, files0, snaps>>

\* a bug: the snapshot holds the frame of the current team only
SaveProgressLatestOnly ==
    /\ fpc = "save"
    /\ save_every # 0
    /\ SaveDue(i, all_shots)
    /\ files' = ToCsv(ProgressFile(season), all_shots[Len(all_shots)])
    /\ snaps' = Append(snaps, [at |-> i, rows |-> all_shots[Len(all_shots)]])
    /\ fpc' = "sleep"
    /\ UNCHANGED <<chart, params, driver, season, i, all_shots, failed_teams, ret, exc,
                   files0, events, resp>>

\* lines 62-65: the progress snapshot is written
SaveProgress ==
    /\ fpc = "save"
    /\ save_every # 0
    /\ SaveDue(i, all_shots)
    /\ files' = ToCsv(ProgressFile(season), Concat(all_shots))
    /\ snaps' = Append(snaps, [at |-> i, rows |-> Concat(all_shots)])
    /\ fpc' = "sleep"
    /\ UNCHANGED <<chart, params, driver, season, i, all_shots, failed_teams, ret, exc,
                   files0, events, resp>>

\* line 64 raises inside the try: lines 70-72 record team i as failed
SaveProgressFails ==
    /\ fpc = "save"
    /\ save_every # 0
    /\ SaveDue(i, all_shots)
    /\ files' \in FailedToCsv(ProgressFile(season), Concat(all_shots))
    /\ failed_teams' = Append(failed_teams, <<all_teams[i], "to_csv">>)
    /\ fpc' = "sleep"
    /\ UNCHANGED <<chart, params, driver, season, i, all_shots, ret, exc,
                   files0, events, resp, snaps>>

\* line 62 false: nothing to save at this index
SaveNotDue ==
    /\ fpc = "save"
    /\ save_every # 0
    /\ ~SaveDue(i, all_shots)
    /\ fpc' = "sleep"
    /\ UNCHANGED <<chart, params, driver, season, i, all_shots, failed_teams, ret, exc, files,
                   files0, events, resp, snaps>>

\* line 62 with save_every = 0: i % 0 raises ZeroDivisionError inside the try
SaveDivByZero ==
    /\ fpc = "save"
    /\ save_every = 0
    /\ failed_teams' = Append(failed_teams, <<all_teams[i], "modulo by zero">>)
    /\ fpc' = "sleep"
    /\ UNCHANGED <<chart, params, driver, season, i, all_shots, ret, exc, files,
                   files0, events, resp, snaps>>

\* a bug: no time.sleep in the except branch, the loop goes on at once after a failure
SleepOnlyAfterSuccess ==
    /\ fpc = "sleep"
    /\ events' = IF \E k \in 1..Len(failed_teams) : failed_teams[k][1] = all_teams[i]
                 THEN events
                 ELSE Append(events, <<"sleep", i>>)
    /\ i' = i + 1
    /\ fpc' = IF i < Len(all_teams) THEN "request" ELSE "combine"
    /\ UNCHANGED <<chart, params, driver, season, all_shots, failed_teams, ret, exc, files,
                   files0, resp, snaps>>

\* lines 68 and 73: time.sleep(delay), then the next team or the end of the loop
Sleep ==
    /\ fpc = "sleep"
    /\ events' = Append(events, <<"sleep", i>>)
    /\ i' = i + 1
    /\ fpc' = IF i < Len(all_teams) THEN "request" ELSE "combine"
    /\ UNCHANGED <<chart, params, driver, season, all_shots, failed_teams, ret, exc, files,
                   files0, resp, snaps>>

\* lines 84-92: the final dataset is written
WriteFinal ==
    /\ fpc = "combine"
    /\ all_shots # <<>>
    /\ files' = ToCsv(OutputFile(season), Concat(all_shots))
    /\ fpc' = "cleanup"
    /\ UNCHANGED <<chart, params, driver, season, i, all_shots, failed_teams, ret, exc,
                   files0, events, resp, snaps>>

\* line 92 raises; nothing catches it in the Fetcher
WriteFinalFails ==
    /\ fpc = "combine"
    /\ all_shots # <<>>
    /\ files' \in FailedToCsv(OutputFile(season), Concat(all_shots))
    /\ exc' = "to_csv"
    /\ fpc' = "raised"
    /\ UNCHANGED <<chart, params, driver, season, i, all_shots, failed_teams, ret,
                   files0, events, resp, snaps>>

\* lines 101-103: no team produced rows
ReturnEmpty ==
    /\ fpc = "combine"
    /\ all_shots = <<>>
    /\ ret' = <<>>
    /\ fpc' = "ret"
    /\ UNCHANGED <<chart, params, driver, season, i, all_shots, failed_teams, exc, files,
                   files0, events, resp, snaps>>

\* a bug: the progress file is left behind
CleanupKeepsProgress ==
    /\ fpc = "cleanup"
    /\ ret' = Concat(all_shots)
    /\ fpc' = "ret"
    /\ UNCHANGED <<chart, params, driver, season, i, all_shots, failed_teams, exc, files,
                   files0, events, resp, snaps>>

\* lines 96-100: the progress file is removed if it is there
Cleanup ==
    /\ fpc = "cleanup"
    /\ files' = IF Exists(ProgressFile(season)) THEN Remove(ProgressFile(season)) ELSE files
    /\ ret' = Concat(all_shots)
    /\ fpc' = "ret"
    /\ UNCHANGED <<chart, params, driver, season, i, all_shots, failed_teams, exc,
                   files0, events, resp, snaps>>

\* line 98 raises; nothing catches it in the Fetcher
CleanupFails ==
    /\ fpc = "cleanup"
    /\ Exists(ProgressFile(season))
    /\ exc' = "remove"
    /\ fpc' = "raised"
    /\ UNCHANGED <<chart, params, driver, season, i, all_shots, failed_teams, ret, files,
                   files0, events, resp, snaps>>

Fetcher ==
    \/ SkipExisting \/ SkipExistingFails \/ GetTeams \/ GetTeamsFails
    \/ RequestReturns \/ RequestRaises
    \/ SaveProgress \/ SaveProgressFails \/ SaveNotDue \/ SaveDivByZero
    \/ Sleep
    \/ WriteFinal \/ WriteFinalFails \/ ReturnEmpty \/ Cleanup \/ CleanupFails

(* --------------------------- get_all_seasons --------------------------- *)

fetcher == <<fpc, season, i, all_shots, failed_teams, ret, exc>>
history == <<files0, events, resp, snaps>>

\* results[key] = value on a Python dict: insertion order, an existing key keeps its place
DictSet(d, key, value) ==
    IF \E k \in 1..Len(d) : d[k][1] = key
    THEN [k \in 1..Len(d) |-> IF d[k][1] = key THEN <<key, value>> ELSE d[k]]
    ELSE Append(d, <<key, value>>)

RECURSIVE SumShots(_)
\* lines 168-174: total_shots over the successful seasons
SumShots(d) ==
    IF d = <<>> THEN 0
    ELSE (IF d[1][2].success THEN d[1][2].shots ELSE 0) + SumShots(Tail(d))

\* lines 116-124: the driver starts
Enter ==
    /\ results' = <<>>
    /\ calls' = <<>>
    /\ year' = start_year
    /\ dpc' = "loop"
    /\ UNCHANGED <<chart, params, fetcher, files, history>>

\* line 183: the process is started
Invoke == dpc = "idle" /\ Enter

\* line 183: the process is started again, after it returned or was killed
Restart == dpc \in {"returned", "dead"} /\ Enter

\* lines 126-134: the next year of the range; the Fetcher is called for its season string
CallFetcher ==
    /\ dpc = "loop"
    /\ year <= end_year
    /\ season' = SeasonStr(year)
    /\ calls' = Append(calls, <<year, SeasonStr(year)>>)
    /\ dpc' = "call"
    /\ fpc' = "enter"
    /\ i' = 0
    /\ all_shots' = <<>>
    /\ failed_teams' = <<>>
    /\ ret' = <<>>
    /\ exc' = ""
    /\ files0' = files
    /\ events' = <<>>
    /\ resp' = <<>>
    /\ snaps' = <<>>
    /\ UNCHANGED <<chart, params, year, results, files>>

\* the Fetcher's frame is gone once the call is over
FrameDropped ==
    /\ fpc' = "none"
    /\ season' = <<>>
    /\ i' = 0
    /\ all_shots' = <<>>
    /\ failed_teams' = <<>>
    /\ ret' = <<>>
    /\ exc' = ""
    /\ files0' = <<>>
    /\ events' = <<>>
    /\ resp' = <<>>
    /\ snaps' = <<>>

\* lines 134-139: the Fetcher returned a frame
RecordSuccess ==
    /\ dpc = "call"
    /\ fpc = "ret"
    /\ results' = DictSet(results, season,
                          [success |-> TRUE, shots |-> Len(ret), file |-> OutputFile(season)])
    /\ year' = year + 1
    /\ dpc' = "loop"
    /\ FrameDropped
    /\ UNCHANGED <<chart, params, calls, files>>

\* a bug: the failure is recorded and the loop is left
RecordFailureBreaks ==
    /\ dpc = "call"
    /\ fpc = "raised"
    /\ results' = DictSet(results, season, [success |-> FALSE, error |-> exc])
    /\ year' = end_year + 1
    /\ dpc' = "loop"
    /\ FrameDropped
    /\ UNCHANGED <<chart, params, calls, files>>

\* a bug: no handler around the call, the exception ends the process
RecordFailureUncaught ==
    /\ dpc = "call"
    /\ fpc = "raised"
    /\ dpc' = "dead"
    /\ FrameDropped
    /\ UNCHANGED <<chart, params, year, results, calls, files>>

\* lines 140-145: an exception escaped the Fetcher
RecordFailure ==
    /\ dpc = "call"
    /\ fpc = "raised"
    /\ results' = DictSet(results, season, [success |-> FALSE, error |-> exc])
    /\ year' = year + 1
    /\ dpc' = "loop"
    /\ FrameDropped
    /\ UNCHANGED <<chart, params, calls, files>>

\* lines 160-178: the range is exhausted; the summary is printed and results returned
Summary ==
    /\ dpc = "loop"
    /\ year > end_year
    /\ dpc' = "returned"
    /\ UNCHANGED <<chart, params, year, results, calls, fetcher, files, history>>

\* the process is killed while the driver runs: memory is lost, the disk stays
Interrupt ==
    /\ dpc \in {"loop", "call"}
    /\ dpc' = "dead"
    /\ year' = start_year
    /\ results' = <<>>
    /\ calls' = <<>>
    /\ FrameDropped
    /\ UNCHANGED <<chart, params, files>>

Driver == Invoke \/ CallFetcher \/ RecordSuccess \/ RecordFailure \/ Summary

\* one process that nothing kills
Run == Fetcher \/ Driver

\* one process, which may be killed
LongNext == Run \/ Interrupt

\* processes started one after the other on the same directory
Next == Run \/ Interrupt \/ Restart

Spec == Init /\ [][Next]_vars

LongSpec == LongInit /\ [][LongNext]_vars

\* every call of the run returns or raises: the run is never stuck while a step is enabled
LiveSpec == LongInit /\ [][Run]_vars /\ WF_vars(Run)

TypeOK ==
    /\ dpc \in {"idle", "loop", "call", "returned", "dead"}
    /\ fpc \in {"none", "enter", "request", "save", "sleep", "combine", "cleanup", "ret", "raised"}
    /\ i \in 0..(NumTeams + 1)

(* ------------------------- history of a call --------------------------- *)

\* the teams requested so far by the current call, in the order of the requests
Requests == [k \in 1..Len(SelectSeq(events, LAMBDA e : e[1] = "req")) |->
                SelectSeq(events, LAMBDA e : e[1] = "req")[k][2]]

\* the current call went past the existence check and looked the team list up
Fetching == dpc = "call" /\ events # <<>>

\* the output file of the season was there when the current call started
WasComplete == dpc = "call" /\ OutputFile(season) \in DOMAIN files0

HasRows(r) == r.ok /\ r.df # <<>>

RECURSIVE RowsOf(_)
\* the rows of the frames that came back, in the order of the requests
RowsOf(rs) ==
    IF rs = <<>> THEN <<>>
    ELSE (IF HasRows(rs[1]) THEN rs[1].df ELSE <<>>) \o RowsOf(Tail(rs))

RECURSIVE CountOf(_)
\* the sum of the row counts of the frames that came back
CountOf(rs) ==
    IF rs = <<>> THEN 0
    ELSE (IF HasRows(rs[1]) THEN Len(rs[1].df) ELSE 0) + CountOf(Tail(rs))

IsOutputFile(f) == f[3] = "_all.csv"

(* ------------------------------- claims -------------------------------- *)

\* C1: a call that finds the season's output file makes no network call (no team-list
\* lookup, no shot-chart request), leaves every file as it was and, when it returns,
\* returns the rows of the file; and no step of any process changes or deletes an
\* output file that exists.
C1_SkipTouchesNothing ==
    [][ /\ (WasComplete => /\ events = <<>>
                           /\ files = files0
                           /\ (fpc = "ret" => ret = files0[OutputFile(season)]))'
        /\ \A f \in DOMAIN files :
              IsOutputFile(f) => f \in DOMAIN files' /\ files'[f] = files[f] ]_vars

\* C1 happens: a later process finds a non-empty output file and returns its rows
C1_Witness ==
    /\ WasComplete
    /\ fpc = "ret"
    /\ ret # <<>>
    /\ ret = files[OutputFile(season)]

\* no frame with rows has come back so far in the current call
NoData == \A k \in 1..Len(resp) : ~HasRows(resp[k])

\* C2: past the existence check, the shot-chart requests of a call are the teams of the
\* team list in list order, each one once: inside the loop there is one request per
\* team reached so far, whatever the earlier teams came to, and the loop is left only
\* when every team has been requested.
C2_OneRequestPerTeam ==
    Fetching /\ exc # "get_teams" =>
        /\ Len(Requests) <= Len(all_teams)
        /\ \A k \in 1..Len(Requests) : Requests[k] = all_teams[k]
        /\ Len(resp) = Len(Requests)
        /\ fpc = "request" => Len(Requests) = i - 1
        /\ fpc \in {"save", "sleep"} => Len(Requests) = i
        /\ fpc \notin {"request", "save", "sleep"} => Len(Requests) = Len(all_teams)

\* C2 happens: the first team raised, the second came back with rows, the third with
\* none, and the loop is over
C2_Witness ==
    /\ Fetching
    /\ fpc = "combine"
    /\ Len(resp) = 3
    /\ ~resp[1].ok
    /\ HasRows(resp[2])
    /\ resp[3].ok /\ resp[3].df = <<>>

\* C3: when some team came back with rows, the frame the call returns and the output
\* file it wrote hold the rows of the teams that came back with rows, teams in list
\* order and each team's rows in their own order; their number is the sum of those
\* teams' row counts.
C3_FinalIsConcat ==
    Fetching /\ ~NoData =>
        /\ (fpc \in {"cleanup", "ret"} \/ (fpc = "raised" /\ exc = "remove")) =>
              /\ OutputFile(season) \in DOMAIN files
              /\ files[OutputFile(season)] = RowsOf(resp)
              /\ Len(files[OutputFile(season)]) = CountOf(resp)
        /\ fpc = "ret" => ret = RowsOf(resp) /\ Len(ret) = CountOf(resp)

\* C3 happens: two of the three teams came back with rows (2 rows and 1 row), the
\* third raised, and the call returned
C3_Witness ==
    /\ Fetching
    /\ fpc = "ret"
    /\ Len(resp) = 3
    /\ HasRows(resp[1]) /\ HasRows(resp[2]) /\ ~resp[3].ok
    /\ Len(ret) = 3

\* C4: as long as no team of the call has come back with rows, the call has written
\* neither the output file nor the progress file (no file differs from what it was when
\* the call started), no exception leaves the loop, and the call returns an empty frame.
C4_NoDataNoFiles ==
    Fetching /\ exc # "get_teams" /\ NoData =>
        /\ files = files0
        /\ fpc \notin {"cleanup", "raised"}
        /\ fpc = "ret" => ret = <<>>

\* C4 happens: with a checkpoint due after every team, one team raised, the others came
\* back empty, and the call returned
C4_Witness ==
    /\ Fetching
    /\ save_every = 1
    /\ fpc = "ret"
    /\ Len(resp) = NumTeams
    /\ NoData
    /\ \E k \in 1..Len(resp) : ~resp[k].ok
    /\ \E k \in 1..Len(resp) : resp[k].ok

Range(rows) == {rows[k] : k \in 1..Len(rows)}

\* line 64 raised for some team of the current call
SnapshotWriteFailed == \E k \in 1..Len(failed_teams) : failed_teams[k][2] = "to_csv"

\* C5: right after team i is processed, i a multiple of save_every, if some team among
\* 1..i came back with rows then the progress file holds the rows of the teams 1..i that
\* came back with rows, whatever team i itself came to (calls in which to_csv raised are
\* left out).
C5_CheckpointEveryNth ==
    (/\ Fetching
     /\ fpc = "sleep"
     /\ save_every >= 1
     /\ i % save_every = 0
     /\ ~NoData
     /\ ~SnapshotWriteFailed) =>
        /\ ProgressFile(season) \in DOMAIN files
        /\ files[ProgressFile(season)] = RowsOf(resp)

\* the teams whose iteration is over, that came back with rows, and whose rows are not
\* (all) in the progress file on disk
Unflushed ==
    {k \in 1..Len(resp) :
        /\ k < i \/ fpc = "sleep"
        /\ HasRows(resp[k])
        /\ ~(/\ ProgressFile(season) \in DOMAIN files
             /\ Range(resp[k].df) \subseteq Range(files[ProgressFile(season)]))}

\* C6: at every point of the team loop, at most save_every - 1 teams that came back with
\* rows have rows missing from the progress file on disk, the team being processed not
\* counted (calls in which to_csv raised are left out).
C6_AtMostNMinusOneUnflushed ==
    (/\ Fetching
     /\ fpc \in {"request", "save", "sleep"}
     /\ save_every >= 1
     /\ ~SnapshotWriteFailed) =>
        Cardinality(Unflushed) <= save_every - 1

\* C7: when a call returns after some team came back with rows, the output file is
\* there and the season's progress file is not.
C7_NoProgressAfterSuccess ==
    Fetching /\ fpc = "ret" /\ ~NoData =>
        /\ OutputFile(season) \in DOMAIN files
        /\ ProgressFile(season) \notin DOMAIN files

\* C7 happens: the progress file was on disk when the call started (left by a killed
\* process), this call wrote no snapshot itself, and it returned with rows
C7_Witness ==
    /\ Fetching
    /\ fpc = "ret"
    /\ ~NoData
    /\ ProgressFile(season) \in DOMAIN files0
    /\ snaps = <<>>

\* the season string of year y as the claim has it: y, a hyphen, (y + 1) mod 100 on two digits
TwoDigitSeason(y) ==
    Str(y) \o <<"-", Digit(((y + 1) % 100) \div 10), Digit(((y + 1) % 100) % 10)>>

\* the number of years of the range [start_year, end_year]
NumYears == IF end_year >= start_year THEN end_year - start_year + 1 ELSE 0

\* C8: the Fetcher is called once per year of the range, in ascending order of the year,
\* with the season string y, hyphen, (y + 1) mod 100 on two digits.
C8_SeasonStrings ==
    /\ \A k \in 1..Len(calls) :
          /\ calls[k][1] = start_year + k - 1
          /\ calls[k][2] = TwoDigitSeason(calls[k][1])
    /\ dpc = "returned" => Len(calls) = NumYears

\* C9: an exception that escapes the Fetcher is recorded for its season as
\* {success: false, error: message} and the driver goes on with the next year; the run
\* summary always holds one entry per year attempted so far, in ascending year order,
\* and one per year of the range when the driver returns.
C9_FailureRecordedRunGoesOn ==
    [][ /\ (dpc = "call" /\ fpc = "raised" /\ dpc' # "dead") =>
              /\ results' = Append(results, <<season, [success |-> FALSE, error |-> exc]>>)
              /\ dpc' = "loop"
              /\ year' = year + 1
        /\ (dpc \in {"loop", "call", "returned"} =>
              /\ \A k \in 1..Len(results) : results[k][1] = SeasonStr(start_year + k - 1)
              /\ dpc \in {"loop", "call"} => Len(results) = year - start_year
              /\ dpc = "loop" => Len(calls) = Len(results)
              /\ dpc = "returned" => Len(results) = NumYears)' ]_vars

\* C9 happens: the first season of a two-year range failed with an exception, the
\* second was fetched, and the driver returned
C9_Witness ==
    /\ dpc = "returned"
    /\ Len(results) = 2
    /\ ~results[1][2].success
    /\ results[1][2].error = "to_csv"
    /\ results[2][2].success

\* C10: a run that nothing kills, and whose every external call returns or raises,
\* reaches its final summary and returns.
C10_RunReturns == <>(dpc = "returned")

\* C10 happens: every season of a two-year range failed with an exception, one of them
\* on the deletion of the progress file, and the driver returned
C10_Witness ==
    /\ dpc = "returned"
    /\ Len(results) = 2
    /\ \A k \in 1..2 : ~results[k][2].success
    /\ \E k \in 1..2 : results[k][2].error = "remove"

(* --------------------------- draw_shot_chart --------------------------- *)

MaxShots == 3

\* the values tried for SHOT_MADE_FLAG, LOC_X and LOC_Y
Flags == {0, 1, 2}
LocXs == {-10, 230}
LocYs == {-5, 100}

\* the table handed to draw_shots: rows with their RangeIndex label and the three columns
ShotTables ==
    UNION {{[k \in 1..n |-> [idx |-> k - 1, SHOT_MADE_FLAG |-> f[k],
                             LOC_X |-> x[k], LOC_Y |-> y[k]]] :
               f \in [1..n -> Flags], x \in [1..n -> LocXs], y \in [1..n -> LocYs]} :
           n \in 0..MaxShots}

\* the Axes handed to create_court: a new one, or one whose view was set before
Surfaces ==
    {BlankAxes,
     [BlankAxes EXCEPT !.xlim = <<-220, 220>>, !.ylim = <<-60, 410>>,
                       !.xticks = <<-220, 0, 220>>, !.yticks = <<0, 410>>]}

\* the fetching script idle with the arguments of line 182, and a table and an Axes to draw on
DrawInit ==
    /\ Start({<<2000, 2025>>}, {5})
    /\ files = <<>>
    /\ chart_df \in ShotTables
    /\ ax \in Surfaces
    /\ rcParams = DefaultRc
    /\ drawn = {}

script == <<start_year, end_year, save_every, dpc, year, results, fpc,
            season, i, all_shots, failed_teams, ret, exc, files,
            files0, events, resp, snaps, calls>>

\* ax.plot(xs, ys, linewidth=2, color=color)
Line(xs, ys, color) == [xs |-> xs, ys |-> ys, linewidth |-> 2, color |-> color]

\* lines 6-7, 9-13, 16: the side lines, the lane, the free-throw line and the backboard
CourtLines(color) ==
    << Line(<<-220, -220>>, <<0, 140>>, color), Line(<<220, 220>>, <<0, 140>>, color),
       Line(<<-80, -80>>, <<0, 190>>, color), Line(<<80, 80>>, <<0, 190>>, color),
       Line(<<-60, -60>>, <<0, 190>>, color), Line(<<60, 60>>, <<0, 190>>, color),
       Line(<<-80, 80>>, <<190, 190>>, color), Line(<<-30, 30>>, <<40, 40>>, color) >>

\* lines 8, 14, 15: the three-point arc and the two circles (size: width and height)
CourtArtists(color) ==
    << [kind |-> "Arc", xy |-> <<0, 140>>, size |-> <<440, 315>>, edgecolor |-> color],
       [kind |-> "Circle", xy |-> <<0, 190>>, size |-> <<120, 120>>, edgecolor |-> color],
       [kind |-> "Circle", xy |-> <<0, 60>>, size |-> <<30, 30>>, edgecolor |-> color] >>

\* a bug: the court is drawn and the view and the ticks are left as they were
CreateCourtKeepsView(color) ==
    /\ "court" \notin drawn
    /\ ax' = [ax EXCEPT !.lines = ax.lines \o CourtLines(color),
                        !.artists = ax.artists \o CourtArtists(color)]
    /\ rcParams' = [family |-> "Avenir", size |-> 18, linewidth |-> 20]
    /\ drawn' = drawn \cup {"court"}
    /\ UNCHANGED <<script, chart_df>>

\* lines 5-23: create_court(ax, color)
CreateCourt(color) ==
    /\ "court" \notin drawn
    /\ ax' = [ax EXCEPT !.lines = ax.lines \o CourtLines(color),
                        !.artists = ax.artists \o CourtArtists(color),
                        !.xlim = <<-250, 250>>,
                        !.ylim = <<0, 470>>,
                        !.xticks = <<>>,
                        !.yticks = <<>>]
    /\ rcParams' = [family |-> "Avenir", size |-> 18, linewidth |-> 20]
    /\ drawn' = drawn \cup {"court"}
    /\ UNCHANGED <<script, chart_df>>

\* line 26: df[df['SHOT_MADE_FLAG'] == 1]
MadeShots(d) == SelectSeq(d, LAMBDA r : r.SHOT_MADE_FLAG = 1)

\* a bug: every shot that was not made counts as missed
MissedShotsNotMade(d) == SelectSeq(d, LAMBDA r : r.SHOT_MADE_FLAG # 1)

\* line 27: df[df['SHOT_MADE_FLAG'] == 0]
MissedShots(d) == SelectSeq(d, LAMBDA r : r.SHOT_MADE_FLAG = 0)

\* ax.scatter(rows['LOC_X'], rows['LOC_Y'] + 60, c=c, s=10, alpha=0.6): one point per
\* row, which keeps the row's index label
Scatter(rows, c) ==
    [c |-> c, s |-> 10, alpha |-> "0.6",
     offsets |-> [k \in 1..Len(rows) |->
                     [idx |-> rows[k].idx, x |-> rows[k].LOC_X, y |-> rows[k].LOC_Y + 60]]]

\* lines 25-30: draw_shots(ax, df); the view limits that autoscaling may compute on an
\* Axes whose view was never set are left out
DrawShots ==
    /\ "shots" \notin drawn
    /\ ax' = [ax EXCEPT !.collections =
                 ax.collections \o <<Scatter(MadeShots(chart_df), "green"),
                                     Scatter(MissedShots(chart_df), "red")>>]
    /\ drawn' = drawn \cup {"shots"}
    /\ UNCHANGED <<script, chart_df, rcParams>>

DrawNext == (\E color \in {"black", "white"} : CreateCourt(color)) \/ DrawShots

\* a plotting session: the court and the shots drawn once each, in either order
DrawSpec == DrawInit /\ [][DrawNext]_vars

(* ------------------------ claims on the renderer ------------------------ *)

\* the points of the collections drawn in colour c that come from the row labelled n
PointsOf(c, n) ==
    {<<j, k>> \in (1..Len(ax.collections)) \X (1..MaxShots) :
        /\ ax.collections[j].c = c
        /\ k <= Len(ax.collections[j].offsets)
        /\ ax.collections[j].offsets[k].idx = n}

\* every point of the collections drawn in colour c that comes from row r is at
\* (LOC_X, LOC_Y + 60)
Placed(c, r) ==
    \A p \in PointsOf(c, r.idx) :
        LET o == ax.collections[p[1]].offsets[p[2]]
        IN  o.x = r.LOC_X /\ o.y = r.LOC_Y + 60

\* C11: once draw_shots has run, every row whose SHOT_MADE_FLAG is 1 is one green point
\* and no red one, every row whose flag is 0 is one red point and no green one, each at
\* (LOC_X, LOC_Y + 60), and a row with any other flag is no point at all
C11_ShotsPartitioned ==
    "shots" \in drawn =>
        \A k \in 1..Len(chart_df) :
            LET r == chart_df[k]
                green == Cardinality(PointsOf("green", r.idx))
                red == Cardinality(PointsOf("red", r.idx))
            IN  /\ green = (IF r.SHOT_MADE_FLAG = 1 THEN 1 ELSE 0)
                /\ red = (IF r.SHOT_MADE_FLAG = 0 THEN 1 ELSE 0)
                /\ Placed("green", r)
                /\ Placed("red", r)

\* draw_shots has drawn a table that holds a made shot, a missed one and a row whose
\* flag is neither
C11_Witness ==
    /\ "shots" \in drawn
    /\ \A f \in Flags : \E k \in 1..Len(chart_df) : chart_df[k].SHOT_MADE_FLAG = f

\* the step in which create_court runs
CourtDrawn == "court" \notin drawn /\ "court" \in drawn'

\* C12 as stated: when create_court returns, the view is x from -220 to 220 and y from
\* 0 to 470 and both tick lists are empty
C12_ViewIsSideLines ==
    [][CourtDrawn => /\ ax'.xlim = <<-220, 220>>
                     /\ ax'.ylim = <<0, 470>>
                     /\ ax'.xticks = <<>>
                     /\ ax'.yticks = <<>>]_vars

\* C12, amended: when create_court returns, the view is x from -250 to 250 and y from
\* 0 to 470 and both tick lists are empty, whatever the view and the ticks were before
C12_ViewAfterCreateCourt ==
    [][CourtDrawn => /\ ax'.xlim = <<-250, 250>>
                     /\ ax'.ylim = <<0, 470>>
                     /\ ax'.xticks = <<>>
                     /\ ax'.yticks = <<>>]_vars

\* create_court has drawn the court in black, before any shot is drawn
C12_Witness ==
    /\ "court" \in drawn
    /\ "shots" \notin drawn
    /\ ax.lines = CourtLines("black")
    /\ ax.artists = CourtArtists("black")
    /\ ax.xlim = <<-250, 250>>
    /\ ax.xticks = <<>>

(* ------------------- more claims on the fetching script ------------------- *)

\* C13: past the team-list lookup, requests and delays alternate, starting with the
\* request for the first team: each request is followed by one delay for the same team
\* before anything else is requested, whether the request came back with rows, with
\* none, or raised, and the last team's request is followed by its delay as well
C13_OneDelayAfterEachRequest ==
    Fetching /\ exc # "get_teams" =>
        /\ events[1] = <<"teams", 0>>
        /\ \A k \in 2..Len(events) :
              events[k] = <<IF k % 2 = 0 THEN "req" ELSE "sleep", all_teams[k \div 2]>>
        /\ fpc = "request" => Len(events) = 2 * (i - 1) + 1
        /\ fpc \in {"save", "sleep"} => Len(events) = 2 * i
        /\ fpc \notin {"request", "save", "sleep"} => Len(events) = 2 * Len(all_teams) + 1

\* C13 happens: the loop is over, the first team raised, the second came back with rows
\* and its snapshot was written, the third came back with none; three delays were made
C13_Witness ==
    /\ Fetching
    /\ fpc = "combine"
    /\ ~resp[1].ok /\ HasRows(resp[2]) /\ resp[3].ok /\ ~HasRows(resp[3])
    /\ Len(snaps) = 1
    /\ Len(SelectSeq(events, LAMBDA e : e[1] = "sleep")) = 3

\* the teams whose frames are in all_shots, and the teams listed in failed_teams
Included == {all_shots[k][1][1] : k \in 1..Len(all_shots)}
Failed == {failed_teams[k][1] : k \in 1..Len(failed_teams)}

\* C14: when the team loop is over, no team is both in all_shots and in failed_teams,
\* and no row of the final dataset is a row of a team listed as failed, whatever
\* save_every is and whatever the snapshot writes came to
C14_FailedTeamsHaveNoRows ==
    Fetching /\ fpc \in {"combine", "cleanup"} =>
        /\ Included \cap Failed = {}
        /\ \A r \in Range(Concat(all_shots)) : r[1] \notin Failed

\* C15: when the driver has returned, the file named by every record with success = TRUE
\* is on disk and holds as many rows as the record's shots
C15_SuccessFileOnDisk ==
    dpc = "returned" =>
        \A k \in 1..Len(results) :
            results[k][2].success =>
                /\ Exists(results[k][2].file)
                /\ Len(files[results[k][2].file]) = results[k][2].shots

\* C16: whenever no call of get_all_shots_season is in progress, a season whose output
\* file is on disk has no progress file on disk, runs that were killed and started
\* again included
C16_NoProgressBesideFinal ==
    dpc # "call" =>
        \A f \in DOMAIN files :
            IsOutputFile(f) => ~Exists(ProgressFile(f[2]))

\* the rows of a dataset that belong to the first n teams of the team list
UpToTeam(rows, n) == SelectSeq(rows, LAMBDA r : \E j \in 1..n : all_teams[j] = r[1])

\* C17: once a call has written the output file, every progress snapshot the call wrote
\* is the head of that file: the snapshot written at team index n is the file's rows of
\* the teams 1..n, and they are the file's first rows
C17_SnapshotIsPrefixOfFinal ==
    Fetching /\ fpc \in {"cleanup", "ret"} /\ ~NoData =>
        \A k \in 1..Len(snaps) :
            LET final == files[OutputFile(season)]
                snap == snaps[k].rows
            IN  /\ snap = UpToTeam(final, snaps[k].at)
                /\ Len(snap) <= Len(final)
                /\ snap = SubSeq(final, 1, Len(snap))

\* C17 happens: the output file is written after two snapshots, the second one longer
\* than the first, and the file is longer than both
C17_Witness ==
    /\ Fetching
    /\ fpc = "cleanup"
    /\ Len(snaps) = 2
    /\ Len(snaps[1].rows) < Len(snaps[2].rows)
    /\ Len(snaps[2].rows) < Len(files[OutputFile(season)])

====
